---- MODULE Spec2Model ----
(***************************************************************************)
(* A model of generar_credenciales.py: one run of the script, from the     *)
(* import guard to the write of the self-contained HTML file.              *)
(*                                                                         *)
(* Text (the template, the HTML being assembled, the fragments) is a       *)
(* sequence of lexical tokens.  Each token stands for a piece of text and  *)
(* the model keeps, per token, what the script's two matchers can see of   *)
(* it: whether it is the literal  src="26.jpg.jpeg" , whether it holds     *)
(* the text  <object , a  data="NAME"  attribute, a  >  or  </object> .    *)
(***************************************************************************)
EXTENDS Integers, Sequences, FiniteSets, TLC

\* ------------------------------------------------------------------ bounds
\* Longest template, in tokens, of the template-assembly specification.
MaxLen == 5
\* Most pages of a PDF in the rasterizer specification.
MaxPages == 2
\* Most pages of a PDF in the whole-run specification.
MaxRunPages == 1
\* Most segments of a template in the whole-run specification.
MaxSegs == 2

\* ------------------------------------------------------- program constants
photo_file == "26.jpg.jpeg"
html_template == "credenciales.html"
pdf_files == <<"T1.pdf", "tp1.pdf", "T2.pdf", "tp2.pdf">>
output_file == "index.html"
\* The output the module docstring announces (Salida:).
documented_output == "credenciales_final.html"
dpi == 200

PdfNames == {pdf_files[k] : k \in 1..Len(pdf_files)}
required == <<photo_file, html_template>> \o pdf_files
RequiredSet == {required[k] : k \in 1..Len(required)}
OutputNames == {output_file, documented_output}

\* rotate_map.get(pdf_name, False)
rotate_map(pdf_name) == pdf_name = "T2.pdf"

\* ------------------------------------------------------------------ tokens
Tok(k, n, d, i) == [k |-> k, n |-> n, d |-> d, i |-> i]
\* Text holding none of the strings the matchers look for, and no ">".
TXT == Tok("text", "", <<>>, 0)
\* The text  <object  (the start of an object tag, or any text ending so).
OBJ == Tok("<object", "", <<>>, 0)
\* The attribute text  data="name" .
DATA(name) == Tok("data=", name, <<>>, 0)
\* The character  > .
GT == Tok(">", "", <<>>, 0)
\* The text  </object> .
ENDOBJ == Tok("</object>", "", <<>>, 0)
\* The literal  src="26.jpg.jpeg" .
PHOTOSRC == Tok("src=", photo_file, <<>>, 0)
\* Another reference to the photo file, such as  href="26.jpg.jpeg" .
PHOTOREF == Tok("href=", photo_file, <<>>, 0)
\* src="data:image/jpeg;base64,<b64>"
PHOTODATA(b64) == Tok("src=data:image/jpeg;base64,", "", b64, 0)
\* <img src="data:image/png;base64,<b64>" alt="Pagina <n>" style="...">
IMG(b64, n) == Tok("<img src=data:image/png;base64,", "", b64, n)
\* The line break '\n'.join puts between two tags.
NL == Tok("\\n", "", <<>>, 0)
\* What an output file held before the run.
OLD == Tok("old", "", <<>>, 0)

\* Whether the token's text holds a ">" (always as its last character).
HasGT(t) == t.k \in {">", "</object>", "<img src=data:image/png;base64,"}

\* ------------------------------------------------------------------ base64
\* base64.b64encode of one group of 1..3 bytes: four characters, each the
\* index 0..63 of a base64 digit, or 64 for the padding "=".
B64Group(g) ==
  LET b1 == g[1]
      b2 == IF Len(g) >= 2 THEN g[2] ELSE 0
      b3 == IF Len(g) >= 3 THEN g[3] ELSE 0
      n == b1 * 65536 + b2 * 256 + b3
  IN << n \div 262144,
        (n \div 4096) % 64,
        IF Len(g) >= 2 THEN (n \div 64) % 64 ELSE 64,
        IF Len(g) >= 3 THEN n % 64 ELSE 64 >>

RECURSIVE b64encode(_)
b64encode(bytes) ==
  IF bytes = <<>> THEN <<>>
  ELSE IF Len(bytes) <= 3 THEN B64Group(bytes)
  ELSE B64Group(SubSeq(bytes, 1, 3)) \o b64encode(SubSeq(bytes, 4, Len(bytes)))

\* ------------------------------------------------------------- rasterizer
\* A PDF file is the sequence of its pages' rotations, in document order.
Rotations == {0, 90, 180, 270}
DocsUpTo(n, rots) == UNION {[1..k -> rots] : k \in 0..n}

\* A faulty variant of RotateCW: the rotation is not reduced modulo 360.
RotateCW_no_wrap(rotation) == rotation + 90

\* page.set_rotation((page.rotation + 90) % 360)
RotateCW(rotation) == (rotation + 90) % 360

\* The rotation page i is rendered with.
PageRotation(doc, i, rotate_cw) ==
  IF rotate_cw THEN RotateCW(doc[i]) ELSE doc[i]

\* A faulty variant of get_pixmap: every pass renders the first page, doc[0].
get_pixmap_first(i, rotation) == [page |-> 1, rotation |-> rotation, dpi |-> dpi]

\* page.get_pixmap(matrix=fitz.Matrix(dpi / 72, dpi / 72)): the raster of
\* page i (counted from 1) under the rotation it has when rendered.
get_pixmap(i, rotation) == [page |-> i, rotation |-> rotation, dpi |-> dpi]

\* pix.tobytes("png"): the PNG stream, which is a function of the raster.
tobytes(pix) == <<pix.page, pix.rotation \div 90, pix.dpi>>

\* One pass of the loop body: the base64 text of page i.
PageImage(doc, i, rotate_cw) ==
  b64encode(tobytes(get_pixmap(i, PageRotation(doc, i, rotate_cw))))

\* The whole of pdf_to_images_b64 on a document every page of which renders.
pdf_to_images_b64(doc, rotate_cw) ==
  [i \in 1..Len(doc) |-> PageImage(doc, i, rotate_cw)]

\* img_tags, then '\n'.join(img_tags)
RECURSIVE JoinTags(_, _)
JoinTags(images_b64, i) ==
  IF i > Len(images_b64) THEN <<>>
  ELSE (IF i > 1 THEN <<NL>> ELSE <<>>)
       \o <<IMG(images_b64[i], i)>> \o JoinTags(images_b64, i + 1)

\* A faulty variant of img_section: the first tag is left out.
img_section_skip_first(images_b64) == JoinTags(images_b64, 2)

img_section(images_b64) == JoinTags(images_b64, 1)

\* ------------------------------------------------------ template assembly
\* html.replace('src="26.jpg.jpeg"', 'src="data:image/jpeg;base64,...")
str_replace(text, b64) ==
  [p \in 1..Len(text) |-> IF text[p] = PHOTOSRC THEN PHOTODATA(b64) ELSE text[p]]

\* The first position after i whose token holds a ">", or 0.
FirstGT(text, i) ==
  LET K == {k \in (i + 1)..Len(text) : HasGT(text[k])}
  IN IF K = {} THEN 0 ELSE CHOOSE k \in K : \A k2 \in K : k <= k2

\* A faulty variant of FirstEnd: the last "</object>" after k, a greedy .* .
LastEnd(text, k) ==
  LET M == {m \in (k + 1)..Len(text) : text[m] = ENDOBJ}
  IN IF M = {} THEN 0 ELSE CHOOSE m \in M : \A m2 \in M : m >= m2

\* The first position after k holding "</object>", or 0.
FirstEnd(text, k) ==
  LET M == {m \in (k + 1)..Len(text) : text[m] = ENDOBJ}
  IN IF M = {} THEN 0 ELSE CHOOSE m \in M : \A m2 \in M : m <= m2

\* The match of  <object[^>]*data="NAME"[^>]*>.*?</object>  (re.DOTALL)
\* that starts at position i: the position of its last token, or 0 when the
\* pattern does not match there.  [^>]* cannot pass a ">", so the attribute
\* lies before the first ">" after i, the tag ends at that ">", and the lazy
\* .*? stops at the first "</object>" after it.
MatchEnd(text, i, name) ==
  IF text[i] # OBJ THEN 0
  ELSE LET k == FirstGT(text, i)
       IN IF k = 0 \/ ~(\E j \in (i + 1)..(k - 1) : text[j] = DATA(name))
          THEN 0
          ELSE FirstEnd(text, k)

\* re.sub(pattern, repl, html, flags=re.DOTALL): scans from the left,
\* replaces each match it meets and goes on after the match.
RECURSIVE SubFrom(_, _, _, _)
SubFrom(text, pos, name, repl) ==
  IF pos > Len(text) THEN <<>>
  ELSE LET m == MatchEnd(text, pos, name)
       IN IF m # 0 THEN repl \o SubFrom(text, m + 1, name, repl)
          ELSE <<text[pos]>> \o SubFrom(text, pos + 1, name, repl)

re_sub(name, repl, text) == SubFrom(text, 1, name, repl)

\* ------------------------------------------------------------------- state
VARIABLES
  pc,            \* the statement the run is at
  termination,   \* "running", "sys.exit", "exception" or "normal"
  fitz_installed,\* whether import fitz succeeds
  present,       \* the required files that exist
  photoBytes,    \* the bytes of the photo file
  pdfFile,       \* each PDF file's pages
  template,      \* the template file's text
  disk,          \* the output directory: name -> file
  touched,       \* the file operations done so far, <<operation, name>>
  photo_b64,
  pdfIdx,        \* position in pdf_files of the conversion loop
  doc,           \* the open document's pages, as changed in memory
  open_docs,     \* the documents opened and not closed
  i,             \* pages of doc rendered so far
  images,
  pdf_sections,
  html,
  subIdx,        \* position in pdf_files of the substitution loop
  write_log      \* the names written, in order

vars == <<pc, termination, fitz_installed, present, photoBytes, pdfFile, disk,
          touched, photo_b64, pdfIdx, doc, open_docs, i, images, pdf_sections, html, subIdx, write_log>>

env == <<fitz_installed, present, photoBytes, pdfFile, template>>

Absent == [exists |-> FALSE, content |-> <<>>]
OldFile == [exists |-> TRUE, content |-> <<OLD>>]
File(text) == [exists |-> TRUE, content |-> text]

At(label) == termination = "running" /\ pc = label

\* sys.exit(1), an unhandled exception and a normal end, as exit statuses.
ExitStatus == IF termination = "normal" THEN 0 ELSE 1

\* An unhandled exception ends the run where it is raised.
Raise(op, name) ==
  /\ termination' = "exception"
  /\ touched' = touched \cup {<<op, name>>}

\* ------------------------------------------------------------------ actions
\* A faulty variant of ImportFitz: no import guard, main() starts in any case.
ImportFitz_unguarded ==
  /\ At("import")
  /\ pc' = "check"
  /\ UNCHANGED <<termination, env, disk, touched, photo_b64, pdfIdx, doc,
                 open_docs, i, images, pdf_sections, html, subIdx, write_log>>

\* try: import fitz / except ImportError: ... sys.exit(1)
ImportFitz ==
  /\ At("import")
  /\ IF fitz_installed
     THEN pc' = "check" /\ termination' = termination
     ELSE pc' = pc /\ termination' = "sys.exit"
  /\ UNCHANGED <<env, disk, touched, photo_b64, pdfIdx, doc, open_docs, i,
                 images, pdf_sections, html, subIdx, write_log>>

\* A faulty variant of missing: only the PDFs are looked for.
missing_pdfs_only == SelectSeq(pdf_files, LAMBDA f : f \notin present)

\* missing = [f for f in required if not os.path.exists(f)]
missing == SelectSeq(required, LAMBDA f : f \notin present)

\* The existence check of main(): sys.exit(1) when a file is missing.
CheckRequired ==
  /\ At("check")
  /\ touched' = touched \cup {<<"exists", f>> : f \in RequiredSet}
  /\ IF missing # <<>>
     THEN pc' = pc /\ termination' = "sys.exit"
     ELSE pc' = "photo" /\ termination' = termination
  /\ UNCHANGED <<env, disk, photo_b64, pdfIdx, doc, open_docs, i, images,
                 pdf_sections, html, subIdx, write_log>>

\* encode_file_b64(path): base64 of the whole file.
encode_file_b64 == b64encode(photoBytes)

\* photo_b64 = encode_file_b64(photo_file)
EncodePhoto ==
  /\ At("photo")
  /\ photo_file \in present
  /\ photo_b64' = encode_file_b64
  /\ touched' = touched \cup {<<"read", photo_file>>}
  /\ pc' = "pdf_open"
  /\ pdfIdx' = 1
  /\ UNCHANGED <<termination, env, disk, doc, open_docs, i, images,
                 pdf_sections, html, subIdx, write_log>>

\* open(path, 'rb') raises: the photo cannot be read.
EncodePhotoFails ==
  /\ At("photo")
  /\ Raise("read", photo_file)
  /\ UNCHANGED <<pc, env, disk, photo_b64, pdfIdx, doc, open_docs, i, images,
                 pdf_sections, html, subIdx, write_log>>

pdf_name == pdf_files[pdfIdx]

\* images = []; doc = fitz.open(path); total = len(doc)
OpenPdf ==
  /\ At("pdf_open")
  /\ pdf_name \in present
  /\ touched' = touched \cup {<<"open", pdf_name>>}
  /\ doc' = pdfFile[pdf_name]
  /\ open_docs' = open_docs \cup {pdf_name}
  /\ images' = <<>>
  /\ i' = 0
  /\ pc' = "page"
  /\ UNCHANGED <<termination, env, disk, photo_b64, pdfIdx, pdf_sections, html, subIdx, write_log>>

\* fitz.open(path) raises: the file is not a valid PDF.
OpenPdfFails ==
  /\ At("pdf_open")
  /\ Raise("open", pdf_name)
  /\ UNCHANGED <<pc, env, disk, photo_b64, pdfIdx, doc, open_docs, i, images,
                 pdf_sections, html, subIdx, write_log>>

\* The document after the rotation step of the loop body on page n.
Rotated(d, n, rotate_cw) ==
  IF rotate_cw THEN [d EXCEPT ![n] = RotateCW(d[n])] ELSE d

\* One pass of  for i in range(total).
RenderPage ==
  /\ At("page")
  /\ i < Len(doc)
  /\ LET d == Rotated(doc, i + 1, rotate_map(pdf_name))
         pix == get_pixmap(i + 1, d[i + 1])
     IN /\ doc' = d
        /\ images' = Append(images, b64encode(tobytes(pix)))
  /\ i' = i + 1
  /\ UNCHANGED <<pc, termination, env, disk, touched, photo_b64, pdfIdx,
                 open_docs, pdf_sections, html, subIdx, write_log>>

\* page.get_pixmap raises on a page: the exception leaves the function.
RenderPageFails ==
  /\ At("page")
  /\ i < Len(doc)
  /\ termination' = "exception"
  /\ UNCHANGED <<pc, env, disk, touched, photo_b64, pdfIdx, doc, open_docs, i,
                 images, pdf_sections, html, subIdx, write_log>>

\* doc.close(); return images
ClosePdf ==
  /\ At("page")
  /\ i = Len(doc)
  /\ open_docs' = open_docs \ {pdf_name}
  /\ pc' = "section"
  /\ UNCHANGED <<termination, env, disk, touched, photo_b64, pdfIdx, doc, i,
                 images, pdf_sections, html, subIdx, write_log>>

\* pdf_sections[pdf_name] = '\n'.join(img_tags), and the next pdf_name.
BuildSection ==
  /\ At("section")
  /\ pdf_sections' = (pdf_name :> img_section(images)) @@ pdf_sections
  /\ IF pdfIdx < Len(pdf_files)
     THEN pdfIdx' = pdfIdx + 1 /\ pc' = "pdf_open"
     ELSE pdfIdx' = pdfIdx /\ pc' = "read_template"
  /\ UNCHANGED <<termination, env, disk, touched, photo_b64, doc, open_docs,
                 i, images, html, subIdx, write_log>>

\* with open(html_template, 'r', encoding='utf-8') as f: html = f.read()
ReadTemplate ==
  /\ At("read_template")
  /\ html_template \in present
  /\ html' = template
  /\ touched' = touched \cup {<<"read", html_template>>}
  /\ pc' = "replace_photo"
  /\ UNCHANGED <<termination, env, disk, photo_b64, pdfIdx, doc, open_docs, i,
                 images, pdf_sections, subIdx, write_log>>

\* A faulty variant of ReadTemplateFails: the output file was opened for writing
\* before the template is read, and is left empty.
ReadTemplateFails_output_opened ==
  /\ At("read_template")
  /\ Raise("read", html_template)
  /\ disk' = [disk EXCEPT ![output_file] = File(<<>>)]
  /\ UNCHANGED <<pc, env, photo_b64, pdfIdx, doc, open_docs, i, images,
                 pdf_sections, html, subIdx, write_log>>

\* The template cannot be read or decoded.
ReadTemplateFails ==
  /\ At("read_template")
  /\ Raise("read", html_template)
  /\ UNCHANGED <<pc, env, disk, photo_b64, pdfIdx, doc, open_docs, i, images,
                 pdf_sections, html, subIdx, write_log>>

\* html = html.replace(f'src="{photo_file}"', f'src="data:image/jpeg;...')
ReplacePhoto ==
  /\ At("replace_photo")
  /\ html' = str_replace(html, photo_b64)
  /\ subIdx' = 1
  /\ pc' = "sub_pdf"
  /\ UNCHANGED <<termination, env, disk, touched, photo_b64, pdfIdx, doc,
                 open_docs, i, images, pdf_sections, write_log>>

\* One pass of the substitution loop.
SubPdf ==
  /\ At("sub_pdf")
  /\ html' = re_sub(pdf_files[subIdx], pdf_sections[pdf_files[subIdx]], html)
  /\ IF subIdx < Len(pdf_files)
     THEN subIdx' = subIdx + 1 /\ pc' = pc
     ELSE subIdx' = subIdx /\ pc' = "write"
  /\ UNCHANGED <<termination, env, disk, touched, photo_b64, pdfIdx, doc,
                 open_docs, i, images, pdf_sections, write_log>>

\* with open(output_file, 'w', encoding='utf-8') as f: f.write(html)
WriteOutput ==
  /\ At("write")
  /\ disk' = [disk EXCEPT ![output_file] = File(html)]
  /\ write_log' = Append(write_log, output_file)
  /\ touched' = touched \cup {<<"write", output_file>>}
  /\ pc' = "report"
  /\ UNCHANGED <<termination, env, photo_b64, pdfIdx, doc, open_docs, i,
                 images, pdf_sections, html, subIdx>>

\* The write fails: open(output_file, 'w') raises and the directory is as
\* it was, or f.write raises after open has emptied the file.
WriteOutputFails ==
  /\ At("write")
  /\ Raise("write", output_file)
  /\ \E opened \in BOOLEAN :
        /\ disk' = IF opened THEN [disk EXCEPT ![output_file] = File(<<>>)]
                    ELSE disk
        /\ write_log' = IF opened THEN Append(write_log, output_file)
                         ELSE write_log
  /\ UNCHANGED <<pc, env, photo_b64, pdfIdx, doc, open_docs, i, images,
                 pdf_sections, html, subIdx>>

\* The closing prints; main() returns.
Report ==
  /\ At("report")
  /\ termination' = "normal"
  /\ pc' = "done"
  /\ UNCHANGED <<env, disk, touched, photo_b64, pdfIdx, doc, open_docs, i,
                 images, pdf_sections, html, subIdx, write_log>>

\* ------------------------------------------------------------ environments
\* The photo files of the model: one byte, and a full group and one more.
PhotoContents == {<<255>>, <<77, 97, 110, 0>>}

\* The PDFs of a whole run: up to MaxRunPages unrotated pages each.
RunDocs == DocsUpTo(MaxRunPages, {0})
\* The PDFs of the rasterizer specification: any rotation on any page.
AllDocs == DocsUpTo(MaxPages, Rotations)

\* The placeholder  <object data="name">x</object> .
Placeholder(name) == <<OBJ, DATA(name), GT, TXT, ENDOBJ>>

\* The templates of a whole run: up to MaxSegs pieces, each some text, a
\* photo reference or the placeholder of T1.pdf or of T2.pdf, the rotated one.
Segments ==
  {<<TXT>>, <<PHOTOSRC>>, <<PHOTOREF>>, Placeholder("T1.pdf"), Placeholder("T2.pdf")}

RECURSIVE Concat(_)
Concat(segs) ==
  IF segs = <<>> THEN <<>> ELSE Head(segs) \o Concat(Tail(segs))

RunTemplates ==
  {Concat(segs) : segs \in UNION {[1..k -> Segments] : k \in 0..MaxSegs}}

\* The templates of the assembly specification: every text of up to MaxLen
\* tokens.
Alphabet ==
  {TXT, OBJ, GT, ENDOBJ, PHOTOSRC, DATA("T1.pdf"), DATA("T2.pdf")}

TokenTemplates == UNION {[1..k -> Alphabet] : k \in 0..MaxLen}

\* ---------------------------------------------------------- specifications
\* The state when the script starts.
Init ==
  /\ pc = "import"
  /\ termination = "running"
  /\ fitz_installed \in BOOLEAN
  /\ present \in SUBSET RequiredSet
  /\ photoBytes \in IF photo_file \in present THEN PhotoContents ELSE {<<>>}
  /\ template \in IF html_template \in present THEN RunTemplates ELSE {<<>>}
  /\ pdfFile \in [PdfNames -> RunDocs]
  /\ \A n \in PdfNames : n \notin present => pdfFile[n] = <<>>
  /\ disk \in {[n \in OutputNames |-> f] : f \in {Absent, OldFile}}
  /\ touched = {}
  /\ photo_b64 = <<>>
  /\ pdfIdx = 1
  /\ doc = <<>>
  /\ open_docs = {}
  /\ i = 0
  /\ images = <<>>
  /\ pdf_sections = <<>>
  /\ html = <<>>
  /\ subIdx = 1
  /\ write_log = <<>>

Next ==
  \/ ImportFitz
  \/ CheckRequired
  \/ EncodePhoto
  \/ EncodePhotoFails
  \/ OpenPdf
  \/ OpenPdfFails
  \/ RenderPage
  \/ RenderPageFails
  \/ ClosePdf
  \/ BuildSection
  \/ ReadTemplate
  \/ ReadTemplateFails
  \/ ReplacePhoto
  \/ SubPdf
  \/ WriteOutput
  \/ WriteOutputFails
  \/ Report

Spec == Init /\ [][Next]_vars

\* The state of main() after the first k PDFs were converted, every file
\* present and readable.
Converted(k) ==
  /\ termination = "running"
  /\ fitz_installed = TRUE
  /\ present = RequiredSet
  /\ disk = [n \in OutputNames |-> Absent]
  /\ touched = {<<"exists", f>> : f \in RequiredSet}
                 \cup {<<"read", photo_file>>}
                 \cup {<<"open", pdf_files[j]>> : j \in 1..k}
  /\ photo_b64 = encode_file_b64
  /\ doc = [p \in 1..Len(pdfFile[pdf_files[k]]) |->
              PageRotation(pdfFile[pdf_files[k]], p, rotate_map(pdf_files[k]))]
  /\ open_docs = {}
  /\ i = Len(doc)
  /\ images = pdf_to_images_b64(pdfFile[pdf_files[k]], rotate_map(pdf_files[k]))
  /\ pdf_sections =
       [n \in {pdf_files[j] : j \in 1..k} |->
          img_section(pdf_to_images_b64(pdfFile[n], rotate_map(n)))]
  /\ html = <<>>
  /\ subIdx = 1
  /\ write_log = <<>>

\* The rasterizer: the run from the opening of T2.pdf, the rotated PDF, on.
InitPdf ==
  /\ pdfFile \in {[n \in PdfNames |->
                     IF n = "T2.pdf" THEN a ELSE IF n = "tp2.pdf" THEN b ELSE <<0>>]
                  : a \in AllDocs, b \in AllDocs}
  /\ photoBytes \in PhotoContents
  /\ template = <<>>
  /\ Converted(2)
  /\ pdfIdx = 3
  /\ pc = "pdf_open"

NextPdf ==
  \/ OpenPdf
  \/ OpenPdfFails
  \/ RenderPage
  \/ RenderPageFails
  \/ ClosePdf
  \/ BuildSection

SpecPdf == InitPdf /\ [][NextPdf]_vars

\* The PDFs of the assembly specification: T1.pdf and tp1.pdf have MaxPages
\* pages and T2.pdf and tp2.pdf none, or the other way round.
TemplateDocs ==
  {[n \in PdfNames |->
      [p \in 1..(IF n \in {"T1.pdf", "tp1.pdf"} THEN a ELSE MaxPages - a) |-> 0]]
   : a \in {0, MaxPages}}

\* Template assembly: the run from the reading of the template to the last
\* substitution.
InitTemplate ==
  /\ pdfFile \in TemplateDocs
  /\ photoBytes = <<77, 97, 110, 0>>
  /\ Converted(Len(pdf_files))
  /\ pdfIdx = Len(pdf_files)
  /\ pc = "read_template"
  /\ template \in TokenTemplates

NextTemplate ==
  \/ ReadTemplate
  \/ ReplacePhoto
  \/ SubPdf

SpecTemplate == InitTemplate /\ [][NextTemplate]_vars

\* -------------------------------------------------------------- properties
\* Helpers of the statements below.
Ops(kinds) == {t \in touched : t[1] \in kinds}
OutputUntouched ==
  /\ write_log = <<>>
  /\ Ops({"write"}) = {}
  /\ \A n \in OutputNames : disk[n] \in {Absent, OldFile}
Positions(text, kind) == {p \in 1..Len(text) : text[p].k = kind}
ImgKind == IMG(<<>>, 0).k
Output == disk[output_file].content

\* C1: when main() runs with at least one required file absent, whatever
\* the set of absent files, the run ends in sys.exit with a nonzero status,
\* reads no photo, opens no PDF, and leaves the output directory as it was.
C1_MissingFilesExit ==
  (fitz_installed /\ present # RequiredSet) =>
     /\ pc \in {"import", "check"}
     /\ termination \in {"running", "sys.exit"}
     /\ (termination = "sys.exit" => ExitStatus # 0 /\ pc = "check")
     /\ Ops({"read", "open"}) = {}
     /\ photo_b64 = <<>> /\ pdf_sections = <<>> /\ open_docs = {}
     /\ OutputUntouched

C1_Witness ==
  /\ fitz_installed
  /\ termination = "sys.exit"
  /\ Len(missing) >= 2
  /\ photo_file \in present
  /\ disk[output_file] = OldFile

\* C2: a run that completes has written its HTML to the file the docstring
\* names, credenciales_final.html.
C2_WritesDocumentedOutput ==
  termination = "normal" => disk[documented_output] = File(html)

\* C8: when the rendering dependency cannot be imported the run ends at the
\* import guard with a nonzero status, no file having been checked, read,
\* opened or written.
C8_ImportGuardFirst ==
  ~fitz_installed =>
     /\ pc = "import"
     /\ termination \in {"running", "sys.exit"}
     /\ (termination = "sys.exit" => ExitStatus # 0)
     /\ touched = {}
     /\ OutputUntouched

C8_Witness ==
  /\ ~fitz_installed
  /\ termination = "sys.exit"
  /\ present = RequiredSet
  /\ disk[output_file] = OldFile

\* C9: outside a running call of pdf_to_images_b64 no document handle is
\* open, whether the call returned or failed on a page.
C9_HandlesClosed ==
  (termination # "running" \/ pc # "page") => open_docs = {}

\* C10: the output file is written at most once, and only when the photo is
\* encoded, the four PDFs are converted and the four substitutions are
\* done; a run that fails before the write leaves the output directory as
\* it was.
C10_WriteIsLast ==
  /\ Len(write_log) <= 1
  /\ write_log # <<>> =>
        /\ pc \in {"write", "report", "done"}
        /\ Ops({"read"}) = {<<"read", photo_file>>, <<"read", html_template>>}
        /\ photo_b64 = encode_file_b64
        /\ DOMAIN pdf_sections = PdfNames
        /\ subIdx = Len(pdf_files)
        /\ write_log = <<output_file>>
        /\ pc \in {"report", "done"} => disk[output_file] = File(html)
  /\ pc \in {"import", "check", "photo", "pdf_open", "page", "section",
             "read_template", "replace_photo", "sub_pdf"} => OutputUntouched

C10_Witness ==
  /\ termination = "exception"
  /\ pc = "page"
  /\ pdfIdx = 3
  /\ disk[output_file] = OldFile
  /\ OutputUntouched

\* A placeholder of `name` is a stretch a..m of the text: "<object" at a,
\* data="name" before the first ">" after a, and "</object>" at m with no
\* other "</object>" between that ">" and m.
IsPlaceholder(text, a, m, name) ==
  /\ text[a] = OBJ
  /\ text[m] = ENDOBJ
  /\ \E j \in (a + 1)..(m - 1), k \in (a + 1)..(m - 1) :
        /\ j < k
        /\ text[j] = DATA(name)
        /\ HasGT(text[k])
        /\ \A q \in (a + 1)..(k - 1) : ~HasGT(text[q])
        /\ \A q \in (k + 1)..(m - 1) : text[q] # ENDOBJ

Placeholders(text, name) ==
  {s \in (1..Len(text)) \X (1..Len(text)) : IsPlaceholder(text, s[1], s[2], name)}

NonOverlapping(S) ==
  \A s \in S, t \in S : s # t => (s[2] < t[1] \/ t[2] < s[1])

Replaced(text, S, repl) ==
  Concat([p \in 1..Len(text) |->
            IF \E s \in S : s[1] = p THEN repl
            ELSE IF \E s \in S : s[1] < p /\ p <= s[2] THEN <<>>
            ELSE <<text[p]>>])

C3_Step ==
  /\ At("replace_photo") =>
        /\ Len(html') = Len(html)
        /\ \A p \in 1..Len(html) : html[p] # PHOTOSRC => html'[p] = html[p]
  /\ At("sub_pdf") =>
        LET name == pdf_files[subIdx]
            P == Placeholders(html, name)
        IN /\ \E S \in SUBSET P :
                 /\ NonOverlapping(S)
                 /\ html' = Replaced(html, S, pdf_sections[name])
           /\ P = {} => html' = html

\* C3: each step of template assembly changes nothing outside what it
\* recognizes.  The photo step changes only tokens that are the literal
\* src="26.jpg.jpeg"; a PDF step turns the text into the same text with
\* some non-overlapping placeholders of that PDF replaced by its fragment,
\* and into the same text when there is no such placeholder.
C3_FramePreserved == [][C3_Step]_vars

\* A placeholder of a PDF of several pages was replaced and the text before
\* it was kept.
C3_Witness ==
  /\ pc = "write"
  /\ template = <<TXT>> \o SubSeq(Placeholder("T1.pdf"), 1, 3) \o <<ENDOBJ>>
  /\ Len(pdfFile["T1.pdf"]) > 1
  /\ html = <<TXT>> \o pdf_sections["T1.pdf"]
  /\ Cardinality(Positions(html, ImgKind)) = Len(pdfFile["T1.pdf"])

\* b64 is the base64 PNG of a raster of page k.
ImageOfPage(b64, k) ==
  \E r \in Rotations : b64 = b64encode(tobytes([page |-> k, rotation |-> r, dpi |-> dpi]))

\* The <img> tags of a fragment, in order.
TagsOf(section) == SelectSeq(section, LAMBDA t : t.k = ImgKind)

\* C4: a call of pdf_to_images_b64 that returns gives one image per page of
\* the file, the k-th the raster of page k, and the fragment built from it
\* has one <img> tag per page, the k-th holding the raster of page k.

C4_OneImagePerPage ==
  /\ At("section") =>
        /\ Len(images) = Len(pdfFile[pdf_name])
        /\ \A k \in 1..Len(images) : ImageOfPage(images[k], k)
  /\ \A n \in DOMAIN pdf_sections :
        /\ Len(TagsOf(pdf_sections[n])) = Len(pdfFile[n])
        /\ \A k \in 1..Len(pdfFile[n]) :
              /\ ImageOfPage(TagsOf(pdf_sections[n])[k].d, k)
              /\ TagsOf(pdf_sections[n])[k].i = k

C4_Witness ==
  /\ "tp2.pdf" \in DOMAIN pdf_sections
  /\ Len(pdfFile["T2.pdf"]) = MaxPages
  /\ Len(pdfFile["tp2.pdf"]) = 0
  /\ Len(TagsOf(pdf_sections["T2.pdf"])) = MaxPages
  /\ pdf_sections["tp2.pdf"] = <<>>

\* b64 is the base64 PNG of the raster of page k under rotation r.
RenderedWith(b64, k, r) ==
  b64 = b64encode(tobytes([page |-> k, rotation |-> r, dpi |-> dpi]))

\* C5: with the rotation flag a page of rotation R is rendered with
\* rotation (R + 90) mod 360, and the step applied twice gives
\* (R + 180) mod 360; without the flag the page is rendered with R.

C5_Rotation ==
  (pc \in {"page", "section"} /\ Len(doc) = Len(pdfFile[pdf_name])) =>
     \A k \in 1..Len(images) :
        LET R == pdfFile[pdf_name][k]
        IN /\ rotate_map(pdf_name) =>
                 /\ doc[k] = (R + 90) % 360
                 /\ RenderedWith(images[k], k, (R + 90) % 360)
                 /\ Rotated(doc, k, TRUE)[k] = (R + 180) % 360
           /\ ~rotate_map(pdf_name) =>
                 /\ doc[k] = R
                 /\ RenderedWith(images[k], k, R)

C5_Witness ==
  /\ At("section")
  /\ pdf_name = "T2.pdf"
  /\ Len(images) = MaxPages
  /\ pdfFile[pdf_name][1] = 270
  /\ doc[1] = 0

\* The text holds  <object data="name">x</object> .
HasPlaceholder(text, name) ==
  \E p \in 1..Len(text) :
     p + 4 <= Len(text) /\ SubSeq(text, p, p + 4) = Placeholder(name)

\* The scenario of C6 for the PDF `name`.
C6_Scenario(name) ==
  /\ Len(pdfFile[name]) = 1
  /\ HasPlaceholder(template, name)
  /\ Cardinality(Positions(template, OBJ.k)) = 1

\* C6: for a PDF of one page whose placeholder <object data="A">x</object>
\* is in the template, the template holding no other "<object", the output
\* of a completed run holds exactly one <img> tag, a PNG data URI, and no
\* "<object".
C6_OneImgNoObject ==
  \A name \in PdfNames :
     (termination = "normal" /\ C6_Scenario(name)) =>
        /\ Cardinality(Positions(Output, ImgKind)) = 1
        /\ Positions(Output, OBJ.k) = {}

C6_Witness ==
  /\ termination = "normal"
  /\ C6_Scenario("T2.pdf")
  /\ Len(pdfFile["T1.pdf"]) = 1
  /\ template[1] = PHOTOSRC

\* C7: when the template holds src="26.jpg.jpeg", the output of a completed
\* run holds src="data:image/jpeg;base64,<base64 of the photo>" and no
\* reference to the photo's file name.
C7_NoPhotoReference ==
  (termination = "normal" /\ \E p \in 1..Len(template) : template[p] = PHOTOSRC) =>
     /\ \E p \in 1..Len(Output) : Output[p] = PHOTODATA(b64encode(photoBytes))
     /\ \A p \in 1..Len(Output) : Output[p].n # photo_file

====
